---- MODULE Spec2Model ----
(***************************************************************************)
(* The self-evolution pipeline of Hohenheim AGI:                           *)
(*   agents/self_evolution.py  (SelfEvolutionFramework, the orchestrator)  *)
(*   agents/evolution_agent.py (EvolutionAgent: applicator, verifier,      *)
(*                              rollback)                                  *)
(* The orchestrator's fields, the snapshot directories, the live tree and  *)
(* the threads that call into the orchestrator are the state.  A thread    *)
(* switch can fall between any two statements, so start_evolution_process  *)
(* is split at its shared reads and writes (the is_evolving check, the     *)
(* assignment, the clone); every other handler is one action.              *)
(***************************************************************************)
EXTENDS Integers, Sequences, FiniteSets, TLC

\* ---------------------------------------------------------------- bounds
MaxRuns == 2        \* evolution runs started in one behaviour
NFiles == 1         \* source files of the project
MaxProps == 2       \* proposals the provider returns in one behaviour
MaxSec == 1         \* seconds the clock advances
MaxApprove == 2     \* approve_evolution calls in one behaviour
MaxTime == 2        \* the largest average time of a benchmark test
MaxSources == 2     \* python files of an analysed codebase
MaxAnalyses == 2    \* analyses of one codebase
MaxBatch == 2       \* proposals of the batch that is followed write by write
MaxHours == 3       \* hours the monitor loop is followed for

\* ------------------------------------------------------------- constants
DaySeconds == 24 * 60 * 60

NoTime == -1        \* None, for a time or a timestamp
Absent == -1        \* a path that does not exist

\* File contents are numbered.  A content c >= CRLF is the text c - CRLF stored
\* with carriage-return line ends; below CRLF the line ends are plain "\n".
CRLF == 100

\* open(path, 'r').read(): universal newlines, "\r\n" and "\r" are read as
\* "\n".  (Writing in text mode leaves "\n" as it is where os.linesep is "\n".)
ReadText(c) == IF c >= CRLF THEN c - CRLF ELSE c

\* core/agi_core.py is the first of the project's files; its line
\* self.version = "<major>.<minor>.<patch>" holds the system's version.
CoreFile == 1
InitialVersion == <<0, 2, 0>>
\* No line of the file matches the version pattern.
NoVersion == <<>>
\* The version lines a candidate for core/agi_core.py can carry: the provider
\* writes the whole file, and keeps the line (v), writes another version, or
\* leaves no line that matches.
Rewritten == <<0, 3, 0>>
VersionLines(v) == {v, Rewritten, NoVersion}

Files == 1..NFiles
Runs == 1..MaxRuns
Times == 0..MaxSec
Callers == {"cmd", "mon"}
\* The three entries of benchmark_tests, and the average times measured.
NTests == 3
Tests == 1..NTests
AvgTimes == 0..MaxTime

VARIABLES
    is_evolving,          \* self.is_evolving
    last_evolution_time,  \* self.last_evolution_time (NoTime = None)
    current_clone_dir,    \* self.current_clone_dir, named by its timestamp
    auto_approve,         \* self.config["auto_approve"]
    clock,                \* time.time(), in seconds
    clones,               \* evolution/clone-<ts>/: files and their .bak siblings
    live,                 \* the live tree: file -> content
    liveBak,              \* the live tree: file -> content of <file>.bak
    version,              \* self.version = "..." in the live core/agi_core.py
    reports,              \* evolution/report-<ts>.json
    evolution_history,    \* self.evolution_history
    stm_finished,         \* short_term_memory entries of type evolution_finished
    run,                  \* one record per started run (its worker thread)
    nruns,                \* runs started so far
    nprops,               \* proposals the provider has returned so far
    caller,               \* threads calling start_evolution_process
    returned,             \* the status start_evolution_process last returned
    approval,             \* the last approve_evolution call and its result
    bench,                \* one benchmark comparison, from measurement to report
    analysis,             \* EvolutionAgent.analyze_codebase over one codebase
    applicator,           \* the loop over the proposals of one run, write by write
    monitor,              \* the configuration and the monitor loops, hour by hour
    agent                 \* evolution_agent.base_dir and the calls that redirect it

vars == <<is_evolving, last_evolution_time, current_clone_dir, auto_approve,
          clock, clones, live, liveBak, version, reports, evolution_history,
          stm_finished, run, nruns, nprops, caller, returned, approval,
          bench, analysis, applicator, monitor, agent>>

\* The variables of the components that are studied on their own: a behaviour
\* of the framework as a whole leaves them as they are.
aloneVars == <<bench, analysis, applicator, monitor, agent>>

\* ------------------------------------------------------------ file system
EmptyDir == [exists |-> FALSE,
             file |-> [f \in Files |-> Absent],
             bak |-> [f \in Files |-> Absent],
             version |-> NoVersion]

NoTarget == [kind |-> "none", dir |-> NoTime, f |-> 0]
SnapTarget(d, f) == [kind |-> "snap", dir |-> d, f |-> f]
LiveTarget(f) == [kind |-> "live", dir |-> NoTime, f |-> f]

\* The file system as one value, so that the file operations are functions.
\* version is the version line of the live core/agi_core.py, a snapshot's
\* version field that of its copy of the file.
FS == [clones |-> clones, live |-> live, liveBak |-> liveBak,
       version |-> version]

ReadT(fs, t) ==
    IF t.kind = "snap" THEN fs.clones[t.dir].file[t.f]
    ELSE IF t.kind = "live" THEN fs.live[t.f]
    ELSE Absent

ReadBak(fs, t) ==
    IF t.kind = "snap" THEN fs.clones[t.dir].bak[t.f]
    ELSE IF t.kind = "live" THEN fs.liveBak[t.f]
    ELSE Absent

WriteT(fs, t, c) ==
    IF t.kind = "snap" THEN [fs EXCEPT !.clones[t.dir].file[t.f] = c]
    ELSE IF t.kind = "live" THEN [fs EXCEPT !.live[t.f] = c]
    ELSE fs

WriteBak(fs, t, c) ==
    IF t.kind = "snap" THEN [fs EXCEPT !.clones[t.dir].bak[t.f] = c]
    ELSE IF t.kind = "live" THEN [fs EXCEPT !.liveBak[t.f] = c]
    ELSE fs

\* The version line of the file at t, and the file written with the line v.
ReadVersion(fs, t) ==
    IF t.f # CoreFile THEN NoVersion
    ELSE IF t.kind = "snap" THEN fs.clones[t.dir].version
    ELSE IF t.kind = "live" THEN fs.version
    ELSE NoVersion

WriteVersion(fs, t, v) ==
    IF t.f # CoreFile THEN fs
    ELSE IF t.kind = "snap" THEN [fs EXCEPT !.clones[t.dir].version = v]
    ELSE IF t.kind = "live" THEN [fs EXCEPT !.version = v]
    ELSE fs

\* The text a provider can give as a proposal's path: a path relative to the
\* project ("rel"), a path with parent-directory segments that climbs out of
\* the snapshot onto the live file ("up"), or nothing usable ("bad": the key
\* is not file_path, or no such file exists).
PathTexts == [kind : {"rel", "up"}, f : Files] \cup {[kind |-> "bad", f |-> 0]}

\* _generate_improvements: os.path.join(self.current_clone_dir, path.lstrip("/"))
ResolvePath(p, ccd) ==
    IF p.kind = "rel" THEN SnapTarget(ccd, p.f)
    ELSE IF p.kind = "up" THEN LiveTarget(p.f)
    ELSE NoTarget

\* _prepare_evolution_report: os.path.relpath(file_path, self.current_clone_dir).
\* "in" says whether the relative path stays inside the directory it is relative to.
RelPath(t, ccd) == [in |-> (t.kind = "snap" /\ t.dir = ccd), t |-> t]

\* The content the provider writes as proposal k of a run (improved_content).
Candidate(k) == k

\* ------------------------------------------------------------------- Init
NoRun == [pc |-> "none", ts |-> NoTime, n |-> 0, k |-> 0, synthDir |-> NoTime,
          applied |-> <<>>, passed |-> <<>>, rolled |-> <<>>]

\* The worker thread of run r has ended in state pc: its locals are gone.
Ended(r, pc) == [NoRun EXCEPT !.pc = pc, !.ts = run[r].ts]

NoReport == [run |-> 0, generated |-> 0, applied |-> 0, details |-> <<>>,
             recommendation |-> "none"]

\* A benchmark comparison that has not been made.
NoBench == [pc |-> "idle",
            original |-> [t \in Tests |-> 0],
            improved |-> [t \in Tests |-> 0],
            overall_improvement |-> [num |-> 0, den |-> 1],
            recommendation |-> "none"]

Constructed ==
    /\ is_evolving = FALSE
    /\ last_evolution_time = NoTime
    /\ current_clone_dir = NoTime
    /\ auto_approve \in BOOLEAN
    /\ clock = 0
    /\ clones = [d \in Times |-> EmptyDir]
    /\ live \in [Files -> {0, CRLF}]
    /\ liveBak = [f \in Files |-> Absent]
    /\ version = InitialVersion
    /\ reports = [d \in Times |-> NoReport]
    /\ evolution_history = <<>>
    /\ stm_finished = <<>>
    /\ run = [r \in Runs |-> NoRun]
    /\ nruns = 0
    /\ nprops = 0
    /\ caller = [t \in Callers |-> [pc |-> "idle", run |-> 0]]
    /\ returned = "none"
    /\ approval = [n |-> 0, ts |-> NoTime, success |-> FALSE]

\* The metrics _analyze_file starts from.
NoFileMetrics == [lines |-> 0, functions |-> 0, classes |-> 0,
                  complexity |-> [num |-> 0, den |-> 1],
                  potential_improvements |-> <<>>]

\* The metrics analyze_codebase starts from, python_files being given.
StartMetrics(python_files) ==
    [total_files |-> Len(python_files), total_lines |-> 0,
     total_functions |-> 0, total_classes |-> 0, complexity_scores |-> <<>>,
     potential_improvements |-> <<>>, improvement_suggestions |-> 0]

\* An analysis that has not been made.
NoAnalysis == [pc |-> "idle", files |-> <<>>, i |-> 0,
               metrics |-> StartMetrics(<<>>), file_metrics |-> NoFileMetrics,
               results |-> <<>>]

\* A loop over proposals that has not begun.
NoApplicator == [pc |-> "idle", n |-> 0, k |-> 0, file |-> Absent,
                 bak |-> Absent, before |-> Absent, original_content |-> Absent,
                 improved_content |-> Absent, applied_improvements |-> <<>>,
                 results |-> <<>>]

\* The configuration of __init__ (lines 54-63), no monitor loop started.
NoMonitor == [evolution_enabled |-> TRUE, trigger_type |-> "DAILY",
              interval_hours |-> 24, evolution_thread |-> 0, loops |-> <<>>,
              running |-> FALSE, starts |-> <<>>]

\* A directory: the project root, or the snapshot evolution/clone-<ts>.
ProjectRoot == [snapshot |-> FALSE, ts |-> NoTime]
CloneDir(ts) == [snapshot |-> TRUE, ts |-> ts]

\* The evolution agent as constructed: base_dir is the project root, no
\* _analyze_cloned_codebase call is in progress.
NoAgent == [base_dir |-> ProjectRoot,
            original_base_dir |-> [r \in Runs |-> ProjectRoot],
            analyzing |-> {}]

\* The components studied on their own, at rest.
AtRest(others) ==
    /\ IF "bench" \in others THEN bench = NoBench ELSE TRUE
    /\ IF "analysis" \in others THEN analysis = NoAnalysis ELSE TRUE
    /\ IF "applicator" \in others THEN applicator = NoApplicator ELSE TRUE
    /\ IF "monitor" \in others THEN monitor = NoMonitor ELSE TRUE
    /\ IF "agent" \in others THEN agent = NoAgent ELSE TRUE

Alone == {"bench", "analysis", "applicator", "monitor", "agent"}

Init == Constructed /\ AtRest(Alone)

\* ------------------------------------------------------- _finish_evolution
\* The orchestrator fields _finish_evolution writes, as one value.
Orch == [is_evolving |-> is_evolving, last |-> last_evolution_time,
         stm |-> stm_finished]

\* _finish_evolution(success, message), called for run r: clears is_evolving,
\* stamps last_evolution_time, stores an evolution_finished entry in short-term
\* memory.  It does not touch self.evolution_history.  Every call passes a
\* non-empty message; the entry is modelled by the run it is about and its
\* success flag.
_finish_evolution(o, r, success, message) ==
    [is_evolving |-> FALSE,
     last |-> clock,
     stm |-> Append(o.stm, [run |-> r, success |-> success])]

SetOrch(o) ==
    /\ is_evolving' = o.is_evolving
    /\ last_evolution_time' = o.last
    /\ stm_finished' = o.stm

\* ------------------------------------------- start_evolution_process (callers)
Pending == Cardinality({t \in Callers : caller[t].pc \in {"enter", "begin"}})

\* _should_trigger_evolution with trigger_type DAILY
_should_trigger_evolution ==
    /\ ~is_evolving
    /\ \/ last_evolution_time = NoTime
       \/ clock - last_evolution_time >= DaySeconds

\* Thread t calls start_evolution_process: the command layer on "start
\* evolution" or a natural-language trigger, the monitor loop when its hourly
\* check finds _should_trigger_evolution.
Call(t) ==
    /\ caller[t].pc = "idle"
    /\ nruns + Pending < MaxRuns
    /\ t = "mon" => _should_trigger_evolution
    /\ caller' = [caller EXCEPT ![t].pc = "enter"]
    /\ UNCHANGED <<is_evolving, last_evolution_time, current_clone_dir,
                   auto_approve, clock, clones, live, liveBak, version, reports,
                   evolution_history, stm_finished, run, nruns, nprops, returned, approval>>
    /\ UNCHANGED aloneVars

\* A start_evolution_process without the is_evolving check: every call goes on.
StartCheck_NoGuard(t) ==
    /\ caller[t].pc = "enter"
    /\ caller' = [caller EXCEPT ![t].pc = "begin"]
    /\ UNCHANGED <<is_evolving, last_evolution_time, current_clone_dir,
                   auto_approve, clock, clones, live, liveBak, version, reports,
                   evolution_history, stm_finished, run, nruns, nprops, returned, approval>>
    /\ UNCHANGED aloneVars

\* start_evolution_process, the check of is_evolving.
StartCheck(t) ==
    /\ caller[t].pc = "enter"
    /\ IF is_evolving
       THEN /\ caller' = [caller EXCEPT ![t].pc = "idle"]
            /\ returned' = "already_running"
       ELSE /\ caller' = [caller EXCEPT ![t].pc = "begin"]
            /\ UNCHANGED returned
    /\ UNCHANGED <<is_evolving, last_evolution_time, current_clone_dir,
                   auto_approve, clock, clones, live, liveBak, version, reports,
                   evolution_history, stm_finished, run, nruns, nprops, approval>>
    /\ UNCHANGED aloneVars

\* start_evolution_process: is_evolving = True, the timestamp and
\* current_clone_dir; the clone is then in progress.
StartBegin(t) ==
    /\ caller[t].pc = "begin"
    /\ nruns < MaxRuns
    /\ is_evolving' = TRUE
    /\ current_clone_dir' = clock
    /\ nruns' = nruns + 1
    /\ run' = [run EXCEPT ![nruns + 1] = [NoRun EXCEPT !.pc = "cloning",
                                                        !.ts = clock]]
    /\ caller' = [caller EXCEPT ![t].pc = "clone", ![t].run = nruns + 1]
    /\ UNCHANGED <<last_evolution_time, auto_approve, clock, clones, live,
                   liveBak, version, reports, evolution_history, stm_finished,
                   nprops, returned, approval>>
    /\ UNCHANGED aloneVars

\* _clone_codebase into self.current_clone_dir (makedirs with exist_ok, then
\* copy2 file by file): j files are copied before an error, all of them when
\* there is none.  .bak files have no allow-listed extension and are not copied.
_clone_codebase(dir, j) ==
    [exists |-> TRUE,
     file |-> [f \in Files |-> IF f <= j THEN live[f] ELSE dir.file[f]],
     bak |-> dir.bak,
     version |-> IF CoreFile <= j THEN version ELSE dir.version]

\* start_evolution_process from the clone to its return: on success the worker
\* thread is started, on failure is_evolving is reset and the clone's result
\* returned.
StartClone(t) ==
    /\ caller[t].pc = "clone"
    /\ \E j \in 0..NFiles :
        LET r == caller[t].run
            d == current_clone_dir
            ok == (j = NFiles)
        IN  /\ clones' = [clones EXCEPT ![d] = _clone_codebase(clones[d], j)]
            /\ run' = [run EXCEPT ![r].pc = IF ok THEN "analyzing" ELSE "failed"]
            /\ is_evolving' = IF ok THEN is_evolving ELSE FALSE
            /\ caller' = [caller EXCEPT ![t] = [pc |-> "idle", run |-> 0]]
            /\ returned' = IF ok THEN "started" ELSE "clone_failed"
    /\ UNCHANGED <<last_evolution_time, current_clone_dir, auto_approve, clock,
                   live, liveBak, version, reports, evolution_history,
                   stm_finished, nruns, nprops, approval>>
    /\ UNCHANGED aloneVars

\* ------------------------------------------------ the run's worker thread
\* _run_evolution_process, step 1: _analyze_cloned_codebase succeeds or not.
Analyze(r) ==
    /\ run[r].pc = "analyzing"
    /\ \E ok \in BOOLEAN :
        IF ok
        THEN /\ run' = [run EXCEPT ![r].pc = "synthesizing"]
             /\ UNCHANGED <<is_evolving, last_evolution_time, stm_finished>>
        ELSE /\ run' = [run EXCEPT ![r] = Ended(r, "failed")]
             /\ SetOrch(_finish_evolution(Orch, r, FALSE, "Codebase analysis failed"))
    /\ UNCHANGED <<current_clone_dir, auto_approve, clock, clones, live, liveBak,
                   version, reports, evolution_history, nruns, nprops, caller, returned, approval>>
    /\ UNCHANGED aloneVars

\* Step 2: _generate_improvements.  The provider's text holds n proposals
\* (parsed = FALSE: no JSON array could be extracted); their paths are joined
\* to self.current_clone_dir as it is now.
Synthesize(r) ==
    /\ run[r].pc = "synthesizing"
    /\ \E parsed \in BOOLEAN, n \in 0..(MaxProps - nprops) :
        IF parsed /\ n > 0
        THEN /\ run' = [run EXCEPT ![r].pc = "applying", ![r].n = n,
                                   ![r].synthDir = current_clone_dir]
             /\ nprops' = nprops + n
             /\ UNCHANGED <<is_evolving, last_evolution_time, stm_finished>>
        ELSE /\ run' = [run EXCEPT ![r] = Ended(r, "failed")]
             /\ UNCHANGED nprops
             /\ SetOrch(_finish_evolution(Orch, r, FALSE,
                                          "No valid improvements generated"))
    /\ UNCHANGED <<current_clone_dir, auto_approve, clock, clones, live, liveBak,
                   version, reports, evolution_history, nruns, caller, returned, approval>>
    /\ UNCHANGED aloneVars

\* Where apply_improvement raises: nowhere, when it opens the .bak sibling,
\* when it opens the file, or after both writes, while it records the change
\* in its history and in the memories.
ApplyFaults == {"none", "backup", "write", "record"}

\* EvolutionAgent.apply_improvement: the .bak sibling, then the file, then the
\* record; whatever is raised on the way is caught and reported as a failure.
apply_improvement(fs, t, original, improved, fault) ==
    LET backed == WriteBak(fs, t, original)
        written == WriteT(backed, t, improved)
    IN  CASE fault = "backup" -> [fs |-> fs, success |-> FALSE]
          [] fault = "write" -> [fs |-> backed, success |-> FALSE]
          [] fault = "record" -> [fs |-> written, success |-> FALSE]
          [] OTHER -> [fs |-> written, success |-> TRUE]

\* EvolutionAgent.revert_improvement: the file is rewritten from its .bak.
revert_improvement(fs, t) ==
    IF ReadBak(fs, t) = Absent THEN fs
    ELSE WriteT(fs, t, ReadText(ReadBak(fs, t)))

\* An _apply_improvement that does not look at the Verifier's result: a change
\* that failed its test stays written and is reported as applied.
_apply_improvement_IgnoreTest(fs, t, improved, line, gen, test, fault) ==
    IF ReadT(fs, t) = Absent \/ ~gen
    THEN [fs |-> fs, success |-> FALSE, verdict |-> "drop"]
    ELSE [fs |-> WriteVersion(
                   apply_improvement(fs, t, ReadText(ReadT(fs, t)), improved,
                                     "none").fs,
                   t, line),
          success |-> TRUE,
          verdict |-> IF test THEN "pass" ELSE "fail"]

\* SelfEvolutionFramework._apply_improvement on target t: gen is whether
\* generate_code_improvement extracted a candidate (it reads the file as text:
\* original_content), test the Verifier's result.
\* verdict records what happened to the file: "drop" (no candidate), "fault"
\* (apply_improvement reported a failure), "fail" (written, Verifier false),
\* "pass" (written, Verifier true).  line is the version line of the candidate;
\* a revert writes the original's line back.
_apply_improvement(fs, t, improved, line, gen, test, fault) ==
    IF ReadT(fs, t) = Absent \/ ~gen
    THEN [fs |-> fs, success |-> FALSE, verdict |-> "drop"]
    ELSE LET original_content == ReadText(ReadT(fs, t))
             applied == apply_improvement(fs, t, original_content, improved,
                                          fault)
         IN  IF ~applied.success
             THEN [fs |-> IF fault = "record"
                          THEN WriteVersion(applied.fs, t, line)
                          ELSE applied.fs,
                   success |-> FALSE, verdict |-> "fault"]
             ELSE IF test
             THEN [fs |-> WriteVersion(applied.fs, t, line), success |-> TRUE,
                   verdict |-> "pass"]
             ELSE [fs |-> revert_improvement(applied.fs, t), success |-> FALSE,
                   verdict |-> "fail"]

\* What can happen to one proposal: whether a candidate is generated, where
\* apply_improvement raises, what the Verifier finds. A step that is not
\* reached has no outcome of its own.
ApplyOutcomes(faults) ==
    {o \in [gen : BOOLEAN, fault : faults, test : BOOLEAN] :
       /\ ~o.gen => o.fault = "none"
       /\ (~o.gen \/ o.fault # "none") => ~o.test}

\* The outcomes that leave the candidate, and so its version line, in the file.
WritesLine(o) == o.gen /\ (o.fault = "record" \/ (o.fault = "none" /\ o.test))

\* Step 3, one turn of the loop over the proposals. The file system of a
\* whole run takes every write; the writes that fail are followed one by one
\* in SpecApply.
ApplyStep(r) ==
    /\ run[r].pc = "applying"
    /\ run[r].k < run[r].n
    /\ \E p \in PathTexts, o \in ApplyOutcomes({"none"}) :
        LET t == ResolvePath(p, run[r].synthDir)
            k == run[r].k + 1
        IN  \E line \in VersionLines(ReadVersion(FS, t)) :
            LET res == _apply_improvement(FS, t, Candidate(k), line, o.gen,
                                          o.test, o.fault)
            IN
            /\ WritesLine(o) \/ line = ReadVersion(FS, t)
            /\ clones' = res.fs.clones
            /\ live' = res.fs.live
            /\ liveBak' = res.fs.liveBak
            /\ version' = res.fs.version
            /\ run' = [run EXCEPT
                        ![r].k = k,
                        ![r].applied = IF res.success THEN Append(@, t) ELSE @,
                        ![r].passed = IF res.verdict = "pass" THEN Append(@, t)
                                      ELSE @,
                        ![r].rolled = IF res.verdict = "fail"
                                      THEN Append(@, [t |-> t,
                                                      before |-> ReadT(FS, t)])
                                      ELSE @]
    /\ UNCHANGED <<is_evolving, last_evolution_time, current_clone_dir,
                   auto_approve, clock, reports, evolution_history,
                   stm_finished, nruns, nprops, caller, returned, approval>>
    /\ UNCHANGED aloneVars

\* The loop's exit without the "nothing applied" test of lines 421-424.
ApplyDone_NoGate(r) ==
    /\ run[r].pc = "applying"
    /\ run[r].k = run[r].n
    /\ run' = [run EXCEPT ![r].pc = "benchmarking", ![r].k = 0,
                          ![r].rolled = <<>>]
    /\ UNCHANGED <<is_evolving, last_evolution_time, stm_finished>>
    /\ UNCHANGED <<current_clone_dir, auto_approve, clock, clones, live, liveBak,
                   version, reports, evolution_history, nruns, nprops, caller, returned,
                   approval>>
    /\ UNCHANGED aloneVars

\* Step 3, after the loop: the run fails when nothing was applied.  The loop's
\* locals are dead from here on.
ApplyDone(r) ==
    /\ run[r].pc = "applying"
    /\ run[r].k = run[r].n
    /\ IF run[r].applied = <<>>
       THEN /\ run' = [run EXCEPT ![r] = Ended(r, "failed")]
            /\ SetOrch(_finish_evolution(Orch, r, FALSE,
                                         "No improvements could be applied"))
       ELSE /\ run' = [run EXCEPT ![r].pc = "benchmarking", ![r].k = 0,
                                   ![r].rolled = <<>>]
            /\ UNCHANGED <<is_evolving, last_evolution_time, stm_finished>>
    /\ UNCHANGED <<current_clone_dir, auto_approve, clock, clones, live, liveBak,
                   version, reports, evolution_history, nruns, nprops, caller, returned,
                   approval>>
    /\ UNCHANGED aloneVars

\* ---------------------------------------------- _compare_benchmark_results
\* The percentages are fractions num/den with den > 0, so that the arithmetic
\* is exact.
Frac(n, d) == [num |-> n, den |-> d]
FracAdd(a, b) == Frac(a.num * b.den + b.num * a.den, a.den * b.den)
FracDiv(a, n) == Frac(a.num, a.den * n)

\* time_improvement_percent of one test.
time_improvement(original_time, improved_time) ==
    IF original_time > 0
    THEN Frac((original_time - improved_time) * 100, original_time)
    ELSE Frac(0, 1)

\* sum(test["time_improvement_percent"] ...) over the first k tests.
RECURSIVE total_improvement(_, _)
total_improvement(tests, k) ==
    IF k = 0 THEN Frac(0, 1)
    ELSE FracAdd(total_improvement(tests, k - 1), tests[k])

\* _compare_benchmark_results(original, improved): every test of original is
\* in improved, both being measured over the same benchmark_tests.
_compare_benchmark_results(original, improved) ==
    LET tests == [t \in Tests |-> time_improvement(original[t], improved[t])]
    IN  [tests |-> tests,
         overall_improvement |->
            IF NTests > 0
            THEN FracDiv(total_improvement(tests, NTests), NTests)
            ELSE Frac(0, 1)]

\* A recommendation that also approves an aggregate of zero.
recommendation_AtLeastZero(overall_improvement) ==
    IF overall_improvement.num >= 0 THEN "approve" ELSE "reject"

\* _prepare_evolution_report: "approve" if overall_improvement > 0 else "reject".
recommendation(overall_improvement) ==
    IF overall_improvement.num > 0 THEN "approve" ELSE "reject"

\* An aggregate improvement below zero and one above, as the benchmark
\* comparison of a run can give.
Improvements == {Frac(-1, 1), Frac(1, 1)}

\* Step 4: _benchmark_improvements raises, or gives the comparison (its
\* overall_improvement is read when the report is built).
Benchmark(r) ==
    /\ run[r].pc = "benchmarking"
    /\ \/ /\ run' = [run EXCEPT ![r] = Ended(r, "failed")]
          /\ SetOrch(_finish_evolution(Orch, r, FALSE, "Benchmarking failed"))
       \/ /\ run' = [run EXCEPT ![r].pc = "reporting"]
          /\ UNCHANGED <<is_evolving, last_evolution_time, stm_finished>>
    /\ UNCHANGED <<current_clone_dir, auto_approve, clock, clones, live, liveBak,
                   version, reports, evolution_history, nruns, nprops, caller, returned, approval>>
    /\ UNCHANGED aloneVars

\* --------------------------------------- _apply_evolution_to_main_codebase
\* source_path of a report entry under clone directory d:
\* os.path.join(clone_dir, rel_path).
SourceOf(e, d) == IF e.in THEN SnapTarget(d, e.t.f) ELSE e.t

\* The clone-* directories of evolution_dir under which the first entry's
\* path exists; os.listdir gives them in no particular order and the first
\* hit is taken.
CloneDirsFor(fs, report) ==
    IF report.details = <<>> THEN {}
    ELSE {d \in Times : /\ fs.clones[d].exists
                        /\ ReadT(fs, SourceOf(report.details[1], d)) # Absent}

\* One turn of the copy loop: the live file is backed up to <file>.bak and
\* overwritten with the snapshot's file.  An entry whose relative path leaves
\* the directory has its target outside the live tree.
CopyEntry(acc, e, d) ==
    LET c == ReadT(acc.fs, SourceOf(e, d))
        target == LiveTarget(e.t.f)
        old == ReadT(acc.fs, target)
        backed == IF old = Absent THEN acc.fs ELSE WriteBak(acc.fs, target, old)
    IN  IF c = Absent THEN acc
        ELSE IF e.in
        THEN [fs |-> WriteVersion(WriteT(backed, target, c), target,
                                  ReadVersion(acc.fs, SourceOf(e, d))),
              files |-> Append(acc.files, e)]
        ELSE [fs |-> acc.fs, files |-> Append(acc.files, e)]

RECURSIVE CopyLoop(_, _, _, _)
CopyLoop(fs, details, d, j) ==
    IF j = 0 THEN [fs |-> fs, files |-> <<>>]
    ELSE CopyEntry(CopyLoop(fs, details, d, j - 1), details[j], d)

\* _update_version_number: the patch component of the version line of the
\* live core/agi_core.py is incremented; a file without a matching line is
\* left as it is.
_update_version_number(fs) ==
    IF fs.version = NoVersion THEN fs
    ELSE [fs EXCEPT !.version = <<@[1], @[2], @[3] + 1>>]

\* _apply_evolution_to_main_codebase(report).  d is the clone directory the
\* search found (NoTime: none), j the number of entries copied before a copy
\* raised (all of them: no error).  The result holds the new file system,
\* orchestrator fields and history, and the returned success.
_apply_evolution_to_main_codebase(fs, o, h, report, d, j) ==
    IF d = NoTime
    THEN [fs |-> fs, orch |-> o, history |-> h,
          success |-> FALSE, finished |-> FALSE]
    ELSE LET c == CopyLoop(fs, report.details, d, j)
         IN  IF j < Len(report.details)
             THEN [fs |-> c.fs,
                   orch |-> _finish_evolution(o, report.run, FALSE,
                                               "Error applying evolution"),
                   history |-> h,
                   success |-> FALSE, finished |-> TRUE]
             ELSE [fs |-> _update_version_number(c.fs),
                   orch |-> _finish_evolution(o, report.run, TRUE,
                                               "Successfully applied evolution"),
                   history |-> Append(h, [report |-> report,
                                          applied_files |-> c.files]),
                   success |-> TRUE, finished |-> TRUE]

\* The choices the environment makes in a promotion.
DirChoices(fs, report) ==
    IF CloneDirsFor(fs, report) = {} THEN {NoTime} ELSE CloneDirsFor(fs, report)

SetPromoted(p) ==
    /\ clones' = p.fs.clones
    /\ live' = p.fs.live
    /\ liveBak' = p.fs.liveBak
    /\ version' = p.fs.version
    /\ evolution_history' = p.history

\* _prepare_evolution_report, overall_improvement being the benchmark
\* comparison's aggregate.
_prepare_evolution_report(r, overall_improvement) ==
    [run |-> r,
     generated |-> run[r].n,
     applied |-> Len(run[r].applied),
     details |-> [i \in 1..Len(run[r].applied) |->
                    RelPath(run[r].applied[i], current_clone_dir)],
     recommendation |-> recommendation(overall_improvement)]

\* A gate that asks for approval whatever the configuration says.
NeedsApproval_Always == TRUE

\* Step 6 asks for approval unless auto_approve is configured.
NeedsApproval == ~auto_approve

\* Steps 5 and 6: the report is built (or building it raises); without
\* auto_approve it is written to report-<timestamp>.json and is_evolving is
\* cleared, with auto_approve the evolution is applied and _finish_evolution
\* called on the result.
ReportGate(r) ==
    /\ run[r].pc = "reporting"
    /\ \/ /\ run' = [run EXCEPT ![r] = Ended(r, "failed")]
          /\ SetOrch(_finish_evolution(Orch, r, FALSE, "Error in evolution process"))
          /\ UNCHANGED <<clones, live, liveBak, version, reports, evolution_history>>
       \/ /\ NeedsApproval
          /\ \E i \in Improvements :
                reports' = [reports EXCEPT
                              ![run[r].ts] = _prepare_evolution_report(r, i)]
          /\ is_evolving' = FALSE
          /\ run' = [run EXCEPT ![r] = Ended(r, "awaiting")]
          /\ UNCHANGED <<last_evolution_time, stm_finished, clones, live, liveBak,
                         version, evolution_history>>
       \/ /\ ~NeedsApproval
          /\ \E i \in Improvements :
             LET report == _prepare_evolution_report(r, i)
             IN  \E d \in DirChoices(FS, report), j \in 0..Len(report.details) :
                    LET p == _apply_evolution_to_main_codebase(
                                FS, Orch, evolution_history, report, d, j)
                    IN  /\ SetPromoted(p)
                        /\ SetOrch(IF p.success
                                   THEN _finish_evolution(p.orch, r, TRUE,
                                          "Evolution successfully applied to main codebase")
                                   ELSE _finish_evolution(p.orch, r, FALSE,
                                          "Failed to apply evolution"))
                        /\ run' = [run EXCEPT ![r] = Ended(r, IF p.success
                                                                  THEN "applied"
                                                                  ELSE "failed")]
          /\ UNCHANGED reports
    /\ UNCHANGED <<current_clone_dir, auto_approve, clock, nruns, nprops, caller, returned, approval>>
    /\ UNCHANGED aloneVars

\* ------------------------------------------------------- approve_evolution
\* The run ids start_evolution_process has handed out.
IssuedIds == {run[r].ts : r \in 1..nruns}

\* approve_evolution(timestamp), called by the command layer with a run id it
\* was given.
approve_evolution(ts) ==
    /\ ts \in IssuedIds
    /\ approval.n < MaxApprove
    /\ IF reports[ts] = NoReport
       THEN /\ approval' = [n |-> approval.n + 1, ts |-> ts, success |-> FALSE]
            /\ UNCHANGED <<is_evolving, last_evolution_time, stm_finished, clones,
                           live, liveBak, version, evolution_history, run>>
       ELSE LET report == reports[ts]
            IN  \E d \in DirChoices(FS, report), j \in 0..Len(report.details) :
                    LET p == _apply_evolution_to_main_codebase(
                                FS, Orch, evolution_history, report, d, j)
                    IN  /\ SetPromoted(p)
                        /\ SetOrch(p.orch)
                        /\ run' = [run EXCEPT ![report.run].pc =
                                     IF p.success THEN "applied"
                                     ELSE IF p.finished THEN "failed" ELSE @]
                        /\ approval' = [n |-> approval.n + 1, ts |-> ts,
                                        success |-> p.success]
    /\ UNCHANGED <<current_clone_dir, auto_approve, clock, reports, nruns, nprops, caller, returned>>
    /\ UNCHANGED aloneVars

\* ------------------------------------------------------------------ time
\* A second passes.  The clock counts from the second of the first start.
Tick ==
    /\ clock < MaxSec
    /\ nruns > 0
    /\ clock' = clock + 1
    /\ UNCHANGED <<is_evolving, last_evolution_time, current_clone_dir,
                   auto_approve, clones, live, liveBak, version, reports,
                   evolution_history, stm_finished, run, nruns, nprops, caller, returned, approval>>
    /\ UNCHANGED aloneVars

Next ==
    \/ \E t \in Callers : Call(t)
    \/ \E t \in Callers : StartCheck(t)
    \/ \E t \in Callers : StartBegin(t)
    \/ \E t \in Callers : StartClone(t)
    \/ \E r \in Runs : Analyze(r)
    \/ \E r \in Runs : Synthesize(r)
    \/ \E r \in Runs : ApplyStep(r)
    \/ \E r \in Runs : ApplyDone(r)
    \/ \E r \in Runs : Benchmark(r)
    \/ \E r \in Runs : ReportGate(r)
    \/ \E ts \in Times : approve_evolution(ts)
    \/ Tick

Spec == Init /\ [][Next]_vars

\* ------------------------------------------- the benchmark comparison alone
\* The recommendation as a function of the measured average times:
\* _run_benchmark_tests has measured the original and the improved codebase,
\* _compare_benchmark_results compares them, _prepare_evolution_report derives
\* the recommendation.
frameworkVars == <<is_evolving, last_evolution_time, current_clone_dir,
                   auto_approve, clock, clones, live, liveBak, version, reports,
                   evolution_history, stm_finished, run, nruns, nprops, caller,
                   returned, approval>>

InitBench ==
    /\ Constructed
    /\ bench \in [pc : {"measured"},
                  original : [Tests -> AvgTimes],
                  improved : [Tests -> AvgTimes],
                  overall_improvement : {NoBench.overall_improvement},
                  recommendation : {"none"}]
    /\ AtRest(Alone \ {"bench"})

CompareBenchmark ==
    /\ bench.pc = "measured"
    /\ bench' = [bench EXCEPT
                   !.pc = "compared",
                   !.overall_improvement =
                      _compare_benchmark_results(bench.original, bench.improved)
                         .overall_improvement]
    /\ UNCHANGED <<frameworkVars, analysis, applicator, monitor, agent>>

ReportBenchmark ==
    /\ bench.pc = "compared"
    /\ bench' = [bench EXCEPT
                   !.pc = "reported",
                   !.recommendation = recommendation(bench.overall_improvement)]
    /\ UNCHANGED <<frameworkVars, analysis, applicator, monitor, agent>>

NextBench == CompareBenchmark \/ ReportBenchmark

SpecBench == InitBench /\ [][NextBench]_vars

\* ------------------------------------------------- the analyzer alone
\* EvolutionAgent.analyze_codebase as a function of the python files under
\* base_dir. A source file is what the analyzer can see of it: whether it can
\* be read, whether ast.parse accepts it, the number of its lines, the
\* function definitions ast.walk meets (line and branch points), the number of
\* class definitions, the lines longer than 100 characters and the lines with
\* a TODO comment. Priorities are in tenths: 0.5 is 5.
ComplexityLimit == 10
LongLinePriority == 5
TodoPriority == 3

Fn(lineno, branches) == [lineno |-> lineno, branches |-> branches]

SourceTexts ==
    [readable : {TRUE}, parses : {TRUE}, lines : {2},
     functions : {<<>>, <<Fn(1, 9)>>, <<Fn(1, 10), Fn(2, 24)>>},
     classes : {0, 1}, long : {{}, {1}}, todo : {{}, {2}}]
    \cup [readable : {TRUE}, parses : {FALSE}, lines : {1, 2},
          functions : {<<>>}, classes : {0}, long : {{}}, todo : {{}}]
    \cup [readable : {FALSE}, parses : {FALSE}, lines : {2},
          functions : {<<>>}, classes : {0}, long : {{}}, todo : {{}}]

\* The codebases: up to MaxSources python files, in the order of os.walk.
Codebases == UNION {[1..n -> SourceTexts] : n \in 0..MaxSources}

\* What the reasoning provider answers (0: no "reasoning" in the answer).
Suggestions == 0..2

\* _calculate_complexity(node): 1, and 1 more for every branch point.
_calculate_complexity(node) == 1 + node.branches

RECURSIVE total_complexity(_, _)
total_complexity(functions, k) ==
    IF k = 0 THEN 0
    ELSE total_complexity(functions, k - 1) + _calculate_complexity(functions[k])

\* _calculate_file_complexity(tree): total_complexity / max(function_count, 1).
_calculate_file_complexity(functions) ==
    Frac(total_complexity(functions, Len(functions)),
         IF Len(functions) > 1 THEN Len(functions) ELSE 1)

Issue(type, file_path, line, priority) ==
    [type |-> type, file |-> file_path, line |-> line, priority |-> priority]

\* The lines of S, in the order of enumerate(content.split('\n')).
LinesIn(S, lines) == SelectSeq([n \in 1..lines |-> n], LAMBDA n : n \in S)

\* _analyze_file(file_path): the line count is set before ast.parse; whatever
\* is raised is logged and the metrics collected so far are returned.
_analyze_file(file_path, src) ==
    IF ~src.readable THEN NoFileMetrics
    ELSE IF ~src.parses THEN [NoFileMetrics EXCEPT !.lines = src.lines]
    ELSE LET flagged == SelectSeq(src.functions,
                           LAMBDA fn : _calculate_complexity(fn) > ComplexityLimit)
             high == [n \in 1..Len(flagged) |->
                        Issue("high_complexity", file_path, flagged[n].lineno,
                              _calculate_complexity(flagged[n]))]
             longs == LinesIn(src.long, src.lines)
             todos == LinesIn(src.todo, src.lines)
         IN  [lines |-> src.lines,
              functions |-> Len(src.functions),
              classes |-> src.classes,
              complexity |-> _calculate_file_complexity(src.functions),
              potential_improvements |->
                 high
                 \o [n \in 1..Len(longs) |->
                       Issue("long_line", file_path, longs[n], LongLinePriority)]
                 \o [n \in 1..Len(todos) |->
                       Issue("todo", file_path, todos[n], TodoPriority)]]

\* potential_improvements.sort(key=priority, reverse=True): a stable sort,
\* issues of equal priority keep their order.
Unsorted(s) == s

RECURSIVE SortByPriority(_)
SortByPriority(s) ==
    IF s = <<>> THEN <<>>
    ELSE LET x == s[Len(s)]
             sorted == SortByPriority(SubSeq(s, 1, Len(s) - 1))
         IN  SelectSeq(sorted, LAMBDA y : y.priority >= x.priority)
             \o <<x>>
             \o SelectSeq(sorted, LAMBDA y : y.priority < x.priority)

InitAnalyze ==
    /\ Constructed
    /\ AtRest(Alone \ {"analysis"})
    /\ \E files \in Codebases :
          analysis = [NoAnalysis EXCEPT !.pc = "files", !.files = files,
                                        !.metrics = StartMetrics(files)]

\* One turn of the loop over python_files.
AnalyzeFile ==
    /\ analysis.pc = "files"
    /\ analysis.i < Len(analysis.files)
    /\ LET file_path == analysis.i + 1
           file_metrics == _analyze_file(file_path, analysis.files[file_path])
       IN  analysis' =
             [analysis EXCEPT
                !.i = file_path,
                !.file_metrics = file_metrics,
                !.metrics =
                   [@ EXCEPT
                      !.total_lines = @ + file_metrics.lines,
                      !.total_functions = @ + file_metrics.functions,
                      !.total_classes = @ + file_metrics.classes,
                      !.complexity_scores = Append(@, file_metrics.complexity),
                      !.potential_improvements =
                         @ \o file_metrics.potential_improvements]]
    /\ UNCHANGED <<frameworkVars, bench, applicator, monitor, agent>>

\* The end of analyze_codebase: the issues are sorted, the provider's
\* reasoning is stored and the metrics are returned. The next analysis of
\* the same codebase begins.
AnalyzeReturn(text) ==
    /\ analysis.pc = "files"
    /\ analysis.i = Len(analysis.files)
    /\ LET metrics ==
             [analysis.metrics EXCEPT
                !.potential_improvements = SortByPriority(@),
                !.improvement_suggestions = text]
       IN  analysis' =
             [analysis EXCEPT
                !.results = Append(@, metrics),
                !.i = 0,
                !.metrics = StartMetrics(analysis.files),
                !.pc = IF Len(analysis.results) + 1 < MaxAnalyses
                       THEN "files" ELSE "done"]
    /\ UNCHANGED <<frameworkVars, bench, applicator, monitor, agent>>

\* advanced_reason raises: analyze_codebase raises and returns nothing.
AnalyzeRaises ==
    /\ analysis.pc = "files"
    /\ analysis.i = Len(analysis.files)
    /\ analysis' = [analysis EXCEPT !.pc = "raised"]
    /\ UNCHANGED <<frameworkVars, bench, applicator, monitor, agent>>

NextAnalyze ==
    \/ AnalyzeFile
    \/ \E text \in Suggestions : AnalyzeReturn(text)
    \/ AnalyzeRaises

SpecAnalyze == InitAnalyze /\ [][NextAnalyze]_vars

\* ------------------------------------- the loop over the proposals alone
\* Step 3 of one run, every file operation being a step of its own: the
\* proposals of the batch are for one file of the snapshot; file and bak are
\* its content and the content of its .bak sibling, before is the content the
\* file had when the turn of the loop began.
InitApply ==
    /\ Constructed
    /\ AtRest(Alone \ {"applicator"})
    /\ \E n \in 1..MaxBatch, content \in {0, CRLF, Absent} :
          applicator = [NoApplicator EXCEPT !.pc = "next", !.n = n,
                                            !.file = content]

\* The result _apply_improvement returns for the proposal in turn.
Returns(success, message) ==
    [applicator EXCEPT
       !.pc = "next",
       !.results = Append(@, [k |-> applicator.k, success |-> success,
                              message |-> message]),
       !.applied_improvements = IF success THEN Append(@, applicator.k) ELSE @]

\* A loop that ends at the first proposal that fails.
NextProposal_StopAtFailure ==
    /\ applicator.pc = "next"
    /\ applicator' =
         IF /\ applicator.k < applicator.n
            /\ \A i \in DOMAIN applicator.results : applicator.results[i].success
         THEN [applicator EXCEPT !.pc = "exists", !.k = @ + 1,
                                 !.before = applicator.file]
         ELSE [applicator EXCEPT !.pc = "done"]
    /\ UNCHANGED <<frameworkVars, bench, analysis, monitor, agent>>

\* for improvement in improvements["improvements"]: the next proposal, or the
\* end of the loop.
NextProposal ==
    /\ applicator.pc = "next"
    /\ applicator' =
         IF applicator.k < applicator.n
         THEN [applicator EXCEPT !.pc = "exists", !.k = @ + 1,
                                 !.before = applicator.file]
         ELSE [applicator EXCEPT !.pc = "done"]
    /\ UNCHANGED <<frameworkVars, bench, analysis, monitor, agent>>

\* if not os.path.exists(file_path)
CheckExists ==
    /\ applicator.pc = "exists"
    /\ applicator' = IF applicator.file = Absent
                     THEN Returns(FALSE, "File not found")
                     ELSE [applicator EXCEPT !.pc = "generate"]
    /\ UNCHANGED <<frameworkVars, bench, analysis, monitor, agent>>

\* generate_code_improvement: the file is read as text; gen is whether a
\* candidate could be extracted from the provider's answer.
Generate(gen) ==
    /\ applicator.pc = "generate"
    /\ applicator' =
         IF gen
         THEN [applicator EXCEPT
                 !.pc = "backup",
                 !.original_content = ReadText(applicator.file),
                 !.improved_content = Candidate(applicator.k)]
         ELSE Returns(FALSE, "Failed to generate improvement")
    /\ UNCHANGED <<frameworkVars, bench, analysis, monitor, agent>>

\* apply_improvement, the .bak sibling: original_content is written to it.
WriteBackup(ok) ==
    /\ applicator.pc = "backup"
    /\ applicator' =
         IF ok
         THEN [applicator EXCEPT !.pc = "write",
                                 !.bak = applicator.original_content]
         ELSE Returns(FALSE, "Failed to apply improvement")
    /\ UNCHANGED <<frameworkVars, bench, analysis, monitor, agent>>

\* apply_improvement, the file: improved_content is written over it.
WriteFile(ok) ==
    /\ applicator.pc = "write"
    /\ applicator' =
         IF ok
         THEN [applicator EXCEPT !.pc = "record",
                                 !.file = applicator.improved_content]
         ELSE Returns(FALSE, "Failed to apply improvement")
    /\ UNCHANGED <<frameworkVars, bench, analysis, monitor, agent>>

\* apply_improvement, the record: the history entry and the two memories.
Record(ok) ==
    /\ applicator.pc = "record"
    /\ applicator' =
         IF ok
         THEN [applicator EXCEPT !.pc = "test"]
         ELSE Returns(FALSE, "Failed to apply improvement")
    /\ UNCHANGED <<frameworkVars, bench, analysis, monitor, agent>>

\* test_improvement: the Verifier's result.
Test(success) ==
    /\ applicator.pc = "test"
    /\ applicator' =
         IF success
         THEN Returns(TRUE, "applied")
         ELSE [applicator EXCEPT !.pc = "revert"]
    /\ UNCHANGED <<frameworkVars, bench, analysis, monitor, agent>>

\* revert_improvement: the file is rewritten from its .bak, read as text.
Revert ==
    /\ applicator.pc = "revert"
    /\ applicator' =
         [Returns(FALSE, "Improvement failed testing") EXCEPT
            !.file = IF applicator.bak = Absent THEN @
                     ELSE ReadText(applicator.bak)]
    /\ UNCHANGED <<frameworkVars, bench, analysis, monitor, agent>>

NextApply ==
    \/ NextProposal
    \/ CheckExists
    \/ \E gen \in BOOLEAN : Generate(gen)
    \/ \E ok \in BOOLEAN : WriteBackup(ok)
    \/ \E ok \in BOOLEAN : WriteFile(ok)
    \/ \E ok \in BOOLEAN : Record(ok)
    \/ \E success \in BOOLEAN : Test(success)
    \/ Revert

SpecApply == InitApply /\ [][NextApply]_vars

\* ------------------------------------------------------ the monitor alone
\* The monitor loop with its hourly sleep, the configuration calls that start
\* it, and the runs it starts, each run being followed from its start to the
\* moment its worker thread ends. clock is in seconds, as in the framework.
HourSeconds == 60 * 60
TriggerTypes == {"DAILY", "INTERVAL"}
IntervalHours == {2, 24}
MonitorLoops == {1, 2}

monitorRest == <<current_clone_dir, auto_approve, clones, live, liveBak,
                 version, reports, evolution_history, run, nruns, nprops,
                 caller, returned, approval>>

InitMonitor ==
    /\ Constructed
    /\ AtRest(Alone \ {"monitor"})
    /\ \E enabled \in BOOLEAN, type \in TriggerTypes, hours \in IntervalHours :
          monitor = [NoMonitor EXCEPT !.evolution_enabled = enabled,
                                      !.trigger_type = type,
                                      !.interval_hours = hours]

\* The time _should_trigger_evolution asks for since the last evolution.
TriggerPeriod ==
    IF monitor.trigger_type = "DAILY" THEN DaySeconds
    ELSE monitor.interval_hours * HourSeconds

\* _should_trigger_evolution, trigger_type being DAILY or INTERVAL.
ShouldTrigger ==
    /\ ~is_evolving
    /\ \/ last_evolution_time = NoTime
       \/ clock - last_evolution_time >= TriggerPeriod

\* start_evolution_monitor: nothing when evolution is disabled or when
\* self.evolution_thread is alive (the loop never ends); else a new loop.
start_evolution_monitor(m) ==
    IF ~m.evolution_enabled \/ m.evolution_thread # 0 THEN m
    ELSE [m EXCEPT !.loops = Append(@, "check"),
                   !.evolution_thread = Len(m.loops) + 1]

StartMonitor ==
    /\ monitor' = start_evolution_monitor(monitor)
    /\ UNCHANGED <<frameworkVars, bench, analysis, applicator, agent>>

\* update_config({"evolution_enabled": enabled})
update_config(enabled) ==
    /\ LET m == [monitor EXCEPT !.evolution_enabled = enabled]
       IN  monitor' = IF m.evolution_enabled /\ m.evolution_thread = 0
                      THEN start_evolution_monitor(m)
                      ELSE m
    /\ UNCHANGED <<frameworkVars, bench, analysis, applicator, agent>>

\* One turn of _evolution_monitor_loop: when _should_trigger_evolution holds,
\* start_evolution_process sets is_evolving and clones; a failed clone resets
\* is_evolving, a successful one starts the worker thread. Then the loop
\* sleeps for an hour.
MonitorCheck(l) ==
    /\ l \in DOMAIN monitor.loops
    /\ monitor.loops[l] = "check"
    /\ IF ShouldTrigger
       THEN /\ Len(monitor.starts) < MaxRuns
            /\ \E cloned \in BOOLEAN :
                 /\ is_evolving' = cloned
                 /\ monitor' =
                      [monitor EXCEPT
                         !.loops[l] = "sleep",
                         !.running = cloned,
                         !.starts = Append(@,
                            [at |-> clock,
                             is_evolving |-> is_evolving,
                             evolution_enabled |-> monitor.evolution_enabled,
                             cloned |-> cloned])]
       ELSE /\ monitor' = [monitor EXCEPT !.loops[l] = "sleep"]
            /\ UNCHANGED is_evolving
    /\ UNCHANGED <<last_evolution_time, clock, stm_finished, monitorRest>>
    /\ UNCHANGED <<bench, analysis, applicator, agent>>

\* The worker thread of the run ends: in _finish_evolution (a failed step, or
\* the promotion under auto_approve), or at the approval gate, which clears
\* is_evolving and returns (line 461).
WorkerEnds(outcome, success) ==
    /\ monitor.running
    /\ outcome = "awaiting" => ~auto_approve
    /\ monitor' = [monitor EXCEPT !.running = FALSE]
    /\ IF outcome = "finished"
       THEN SetOrch(_finish_evolution(Orch, Len(monitor.starts), success,
                                      "finished"))
       ELSE /\ is_evolving' = FALSE
            /\ UNCHANGED <<last_evolution_time, stm_finished>>
    /\ UNCHANGED <<clock, monitorRest>>
    /\ UNCHANGED <<bench, analysis, applicator, agent>>

\* time.sleep(60 * 60): an hour passes and the loops wake up.
Hour ==
    /\ clock < MaxHours * HourSeconds
    /\ \A l \in DOMAIN monitor.loops : monitor.loops[l] = "sleep"
    /\ clock' = clock + HourSeconds
    /\ monitor' = [monitor EXCEPT !.loops = [l \in DOMAIN @ |-> "check"]]
    /\ UNCHANGED <<is_evolving, last_evolution_time, stm_finished, monitorRest>>
    /\ UNCHANGED <<bench, analysis, applicator, agent>>

NextMonitor ==
    \/ StartMonitor
    \/ \E enabled \in BOOLEAN : update_config(enabled)
    \/ \E l \in MonitorLoops : MonitorCheck(l)
    \/ \E outcome \in {"finished", "awaiting"}, success \in BOOLEAN :
          WorkerEnds(outcome, success)
    \/ Hour

SpecMonitor == InitMonitor /\ [][NextMonitor]_vars

\* --------------------------------------- the analyzer's base_dir redirect
\* start_evolution_process and the first two steps of the worker threads,
\* _analyze_cloned_codebase being followed from the moment it points
\* evolution_agent.base_dir at the snapshot to the moment it puts the saved
\* value back.
AnalyzeEnter(r) ==
    /\ run[r].pc = "analyzing"
    /\ r \notin agent.analyzing
    /\ agent' = [agent EXCEPT !.original_base_dir[r] = agent.base_dir,
                              !.base_dir = CloneDir(current_clone_dir),
                              !.analyzing = @ \cup {r}]
    /\ UNCHANGED <<frameworkVars, bench, analysis, applicator, monitor>>

\* analyze_codebase returns or raises; base_dir is set to original_base_dir
\* on both paths.
AnalyzeLeave(r) ==
    /\ r \in agent.analyzing
    /\ agent' = [agent EXCEPT !.base_dir = agent.original_base_dir[r],
                              !.analyzing = @ \ {r}]
    /\ \E ok \in BOOLEAN :
        IF ok
        THEN /\ run' = [run EXCEPT ![r].pc = "synthesizing"]
             /\ UNCHANGED <<is_evolving, last_evolution_time, stm_finished>>
        ELSE /\ run' = [run EXCEPT ![r] = Ended(r, "failed")]
             /\ SetOrch(_finish_evolution(Orch, r, FALSE, "Codebase analysis failed"))
    /\ UNCHANGED <<current_clone_dir, auto_approve, clock, clones, live, liveBak,
                   version, reports, evolution_history, nruns, nprops, caller,
                   returned, approval>>
    /\ UNCHANGED <<bench, analysis, applicator, monitor>>

NextRedirect ==
    \/ \E t \in Callers : Call(t)
    \/ \E t \in Callers : StartCheck(t)
    \/ \E t \in Callers : StartBegin(t)
    \/ \E t \in Callers : StartClone(t)
    \/ \E r \in Runs : AnalyzeEnter(r)
    \/ \E r \in Runs : AnalyzeLeave(r)
    \/ \E r \in Runs : Synthesize(r)
    \/ Tick

SpecRedirect == Init /\ [][NextRedirect]_vars

\* ================================================================ claims
\* The states in which a clone is in progress or a worker thread is running.
Working == {"cloning", "analyzing", "synthesizing", "applying", "benchmarking",
            "reporting"}

\* C1: at most one evolution run is active at a time: no reachable state has
\* two pipeline workers running, or two clones in progress.
C1_OneRunAtATime ==
    Cardinality({r \in Runs : run[r].pc \in Working}) <= 1

\* C2: a start call that finds is_evolving true returns the status
\* already_running and changes nothing: no snapshot directory is created, and
\* is_evolving, current_clone_dir, last_evolution_time and evolution_history
\* (and the runs) are as before.
C2_AlreadyRunningNoEffect ==
    [][\A t \in Callers :
         (caller[t].pc = "enter" /\ caller'[t].pc # "enter" /\ is_evolving)
         => /\ returned' = "already_running"
            /\ caller'[t].pc = "idle"
            /\ UNCHANGED <<is_evolving, current_clone_dir, last_evolution_time,
                           evolution_history, clones, run, nruns>>]_vars

\* C2, its case: a call was refused while a run was in progress.
C2_Witness ==
    /\ returned = "already_running"
    /\ is_evolving
    /\ \E r \in Runs : run[r].pc \in Working

\* C3: is_evolving is true in every state of a run other than Idle, Applied,
\* Failed and Rejected; in particular it is true while the run awaits approval.
C3_EvolvingWhileActive ==
    \A r \in Runs : run[r].pc \in Working \cup {"awaiting"} => is_evolving

ListsValidated(rep, r) ==
    /\ rep.run = r
    /\ rep.applied = Len(run[r].passed)
    /\ Len(rep.details) = rep.applied
    /\ \A i \in DOMAIN rep.details : rep.details[i].t = run[r].passed[i]

FinishCount(r) ==
    Cardinality({i \in DOMAIN stm_finished : stm_finished[i].run = r})

\* C8: every execution of _finish_evolution sets last_evolution_time to the
\* current time, clears is_evolving and appends one entry to the evolution
\* history.
C8_FinishBookkeeping ==
    [][Len(stm_finished') > Len(stm_finished)
       => /\ last_evolution_time' = clock
          /\ ~is_evolving'
          /\ Len(evolution_history')
               = Len(evolution_history)
                 + (Len(stm_finished') - Len(stm_finished))]_vars

\* C9: every run that has ended, whatever its outcome, performed the finish
\* bookkeeping exactly once.
C9_FinishExactlyOnce ==
    \A r \in Runs : run[r].pc \in {"applied", "failed"} => FinishCount(r) = 1

\* C10: a run whose worker fails ends as Failed with is_evolving cleared and a
\* record of the failure in the evolution history.
C10_FailureRecorded ==
    [][\A r \in Runs :
         (run[r].pc \in Working \ {"cloning"} /\ run'[r].pc = "failed")
         => /\ ~is_evolving'
            /\ \E i \in DOMAIN evolution_history' :
                 evolution_history'[i].report.run = r]_vars

\* The stage changes the state diagram allows to a run's start and worker.
StageSteps ==
    {<<"none", "cloning">>, <<"cloning", "analyzing">>, <<"cloning", "failed">>,
     <<"analyzing", "synthesizing">>, <<"analyzing", "failed">>,
     <<"synthesizing", "applying">>, <<"synthesizing", "failed">>,
     <<"applying", "benchmarking">>, <<"applying", "failed">>,
     <<"benchmarking", "reporting">>, <<"benchmarking", "failed">>,
     <<"reporting", "awaiting">>, <<"reporting", "applied">>,
     <<"reporting", "failed">>}

\* C11: the pipeline's worker follows the stage order and its gates: a run whose
\* synthesis yields no proposals fails without a file being written; a run
\* that leaves the apply loop with no validated change fails instead of being
\* benchmarked; only runs with at least one validated change are benchmarked,
\* reported on or promoted.
C11_StageOrderAndGates ==
    [][/\ \A r \in Runs :
            /\ (run[r].pc \in Working \cup {"none"} /\ run'[r].pc # run[r].pc)
               => <<run[r].pc, run'[r].pc>> \in StageSteps
            /\ (run[r].pc = "synthesizing" /\ run'[r].pc = "applying")
               => run'[r].n > 0
            /\ (run[r].pc = "synthesizing" /\ run'[r].pc = "failed")
               => UNCHANGED <<clones, live, liveBak>>
            /\ (run[r].pc = "applying" /\ run'[r].pc # "applying"
                /\ run[r].passed = <<>>)
               => run'[r].pc = "failed"
            /\ run'[r].pc \in {"benchmarking", "reporting"}
               => run'[r].passed # <<>>
       /\ \A ts \in Times :
            reports'[ts] # NoReport => reports'[ts].applied >= 1
       /\ \A i \in DOMAIN evolution_history' :
            evolution_history'[i].report.applied >= 1]_vars

\* The only run had one proposal, which was written, failed its test and was
\* rolled back; the run failed.
C11_Witness ==
    /\ nruns = 1 /\ nprops = 1 /\ run[1].pc = "failed"
    /\ \E f \in Files :
         /\ clones[run[1].ts].bak[f] # Absent
         /\ clones[run[1].ts].file[f] = ReadText(clones[run[1].ts].bak[f])

C17_AutoApprovePromotes ==
    [][\A r \in Runs :
         (auto_approve /\ run[r].pc = "reporting" /\ run'[r].pc # "reporting")
         => /\ reports' = reports
            /\ run'[r].pc \in {"applied", "failed"}
            /\ run'[r].pc = "applied"
               => /\ Len(evolution_history') = Len(evolution_history) + 1
                  /\ evolution_history'[Len(evolution_history')].report.run = r]_vars

\* An auto-approved run was promoted although its report recommends reject,
\* and no report was persisted.
C17_Witness ==
    /\ auto_approve
    /\ \A ts \in Times : reports[ts] = NoReport
    /\ \E i \in DOMAIN evolution_history :
         /\ evolution_history[i].report.recommendation = "reject"
         /\ run[evolution_history[i].report.run].pc = "applied"

RECURSIVE OtherTimes(_, _, _)
OtherTimes(original, t, k) ==
    IF k = 0 THEN 1
    ELSE OtherTimes(original, t, k - 1)
         * (IF k # t /\ original[k] > 0 THEN original[k] ELSE 1)

\* The sign of the mean over the tests of (original - improved) / original *
\* 100, a test with original time 0 contributing 0: the sum of the tests'
\* percentages brought to their common denominator.
RECURSIVE AggregateSign(_, _, _)
AggregateSign(original, improved, k) ==
    IF k = 0 THEN 0
    ELSE AggregateSign(original, improved, k - 1)
         + (IF original[k] > 0
            THEN (original[k] - improved[k]) * OtherTimes(original, k, NTests)
            ELSE 0)

\* C19: the recommendation is approve when the aggregate improvement
\* percentage (the mean of the tests' percentages, a test with original time 0
\* counting 0) is greater than 0, and reject otherwise.
C19_RecommendationBySign ==
    bench.pc = "reported"
    => bench.recommendation =
         IF AggregateSign(bench.original, bench.improved, NTests) > 0
         THEN "approve" ELSE "reject"

\* Approved with one test whose original time is 0 and whose improved time is
\* not, the other percentages being 0 and above.
C19_Witness ==
    /\ bench.pc = "reported"
    /\ bench.recommendation = "approve"
    /\ \E t \in Tests : bench.original[t] = 0 /\ bench.improved[t] > 0

\* C20: no two started runs have the same id; the snapshot directory
\* clone-<id> and the report file report-<id>.json are named by the id, so no
\* two runs share a directory or a report file either.
C20_RunIdsUnique ==
    \A r1, r2 \in 1..nruns : r1 # r2 => run[r1].ts # run[r2].ts

C22_ParseErrorZeroMetrics ==
    (analysis.i > 0 /\ ~analysis.files[analysis.i].parses)
    => analysis.file_metrics = NoFileMetrics

\* C23: two analyses of the same unmodified codebase return identical
\* results, every field included.
C23_AnalyzerIdempotent ==
    Len(analysis.results) = MaxAnalyses
    => \A m, n \in 1..MaxAnalyses : analysis.results[m] = analysis.results[n]

\* The function of the analysed codebase an issue points at.
FunctionsAt(issue) ==
    {n \in 1..Len(analysis.files[issue.file].functions) :
       analysis.files[issue.file].functions[n].lineno = issue.line}

TypeRank(type) ==
    CASE type = "high_complexity" -> 1
      [] type = "long_line" -> 2
      [] type = "todo" -> 3

\* C24: in every result the issues are in descending order of priority; a
\* long_line issue has priority 0.5, a todo issue 0.3, a high_complexity issue
\* is about a function of complexity above 10 and has priority complexity/10,
\* above 1.0; so high_complexity issues come first and todo issues last.
C24_IssuesSortedAndRanged ==
    \A n \in 1..Len(analysis.results) :
       LET issues == analysis.results[n].potential_improvements
       IN  /\ \A a, b \in 1..Len(issues) :
                a < b => /\ issues[a].priority >= issues[b].priority
                         /\ TypeRank(issues[a].type) <= TypeRank(issues[b].type)
           /\ \A a \in 1..Len(issues) :
                /\ issues[a].type = "long_line" => issues[a].priority = 5
                /\ issues[a].type = "todo" => issues[a].priority = 3
                /\ issues[a].type = "high_complexity"
                   => /\ issues[a].priority > 10
                      /\ \E f \in FunctionsAt(issues[a]) :
                           LET fn == analysis.files[issues[a].file].functions[f]
                           IN  /\ 1 + fn.branches > 10
                               /\ issues[a].priority = 1 + fn.branches

\* A result with issues of the three types, which the sort has reordered: it
\* begins with an issue of the second file.
C24_Witness ==
    \E n \in 1..Len(analysis.results) :
       LET issues == analysis.results[n].potential_improvements
       IN  /\ {issues[a].type : a \in 1..Len(issues)}
                = {"high_complexity", "long_line", "todo"}
           /\ issues[1].file = 2
           /\ \E a \in 1..Len(issues) : issues[a].file = 1

\* The steps of one turn of the loop over the proposals, in their order.
TurnSteps ==
    {<<"exists", "generate">>, <<"generate", "backup">>, <<"backup", "write">>,
     <<"write", "record">>, <<"record", "test">>, <<"test", "revert">>}

\* C25: the proposals of a run are processed one at a time in the order of
\* the list, each once: a turn begins only when the turn before has returned
\* its result, it is for the next proposal of the list, its steps follow one
\* another and end with one result for that proposal; and the loop ends only
\* when every proposal has had its turn, whatever the results of the others.
C25_OneProposalAtATime ==
    [][/\ applicator'.k # applicator.k
          => /\ applicator.pc = "next"
             /\ applicator'.k = applicator.k + 1
             /\ Len(applicator.results) = applicator.k
       /\ (applicator.pc # "next" /\ applicator'.pc # applicator.pc)
          => \/ <<applicator.pc, applicator'.pc>> \in TurnSteps
                /\ applicator'.results = applicator.results
             \/ /\ applicator'.pc = "next"
                /\ Len(applicator'.results) = applicator.k
                /\ applicator'.results[applicator.k].k = applicator.k
       /\ applicator'.pc = "done"
          => /\ applicator.k = applicator.n
             /\ Len(applicator.results) = applicator.n
             /\ applicator'.applied_improvements =
                  SelectSeq([i \in 1..applicator.n |-> i],
                            LAMBDA i : applicator.results[i].success)]_vars

\* C25, its case: the first proposal of a batch failed and the second one
\* was applied.
C25_Witness ==
    /\ applicator.pc = "done"
    /\ applicator.n = 2
    /\ ~applicator.results[1].success
    /\ applicator.results[2].success

\* C26: when the applicator reports a failure for a proposal (no candidate
\* generated, or apply_improvement unsuccessful, so that the Verifier and the
\* rollback are not called), nothing has been written: the file holds what it
\* held before the turn.
C26_FailureWritesNothing ==
    [][(/\ applicator.pc \in {"generate", "backup", "write", "record"}
        /\ applicator'.pc = "next")
       => applicator'.file = applicator.before]_vars

\* C27: the .bak sibling is written before the file is overwritten: whenever
\* the file holds the candidate of the turn, also when the operation stops
\* between or after its two writes, the .bak sibling holds what the file held
\* immediately before it was overwritten.
C27_BackupHoldsPriorContent ==
    (/\ applicator.pc \in {"record", "test", "revert", "next", "done"}
     /\ applicator.k > 0
     /\ applicator.file = Candidate(applicator.k))
    => applicator.bak = applicator.before

\* C28: the monitor starts no run while is_evolving is true, and with trigger
\* type DAILY no two runs less than 24 hours apart (with INTERVAL, less than
\* interval_hours apart), whatever became of the earlier run.
C28_MonitorStartsSpaced ==
    \A i \in DOMAIN monitor.starts :
       /\ ~monitor.starts[i].is_evolving
       /\ i > 1 => monitor.starts[i].at - monitor.starts[i - 1].at
                     >= TriggerPeriod

\* C29: the monitor starts no run while evolution_enabled is false, whether
\* it was false from the start or set to false by update_config with a loop
\* already running; and at most one monitor loop is running.
C29_DisabledStartsNothing ==
    /\ \A i \in DOMAIN monitor.starts : monitor.starts[i].evolution_enabled
    /\ Len(monitor.loops) <= 1

\* C30: whenever no _analyze_cloned_codebase call is in progress,
\* evolution_agent.base_dir is the project root.
C30_RedirectUndone ==
    agent.analyzing = {} => agent.base_dir = ProjectRoot

====
